---------------------------- MODULE Spec2Model ----------------------------
(***************************************************************************)
(* kyanit-buildtools, versioning: GitReleaseStatus (head, latest, commits, *)
(* next) over a git repository.  Text is modelled as TLA+ strings, read    *)
(* character by character; the regular expressions of the source are      *)
(* modelled by matchers that do what Python's re does on them.             *)
(***************************************************************************)
EXTENDS Integers, Sequences, FiniteSets, TLC

(***************************************************************************)
(* Bounds of the model.                                                    *)
(***************************************************************************)
\* at most this many commits in the repository
MaxCommits == 2

(***************************************************************************)
(* Text helpers (Python str / re primitives).                              *)
(***************************************************************************)
\* s[i], or "" outside the string
Ch(s, i) == IF 1 <= i /\ i <= Len(s) THEN SubSeq(s, i, i) ELSE ""

Digits == {"0", "1", "2", "3", "4", "5", "6", "7", "8", "9"}

LowerLetters == "abcdefghijklmnopqrstuvwxyz"

UpperLetters == "ABCDEFGHIJKLMNOPQRSTUVWXYZ"

Letters == {Ch(LowerLetters, i) : i \in 1..26} \cup {Ch(UpperLetters, i) : i \in 1..26}

\* str.strip() / \s : the whitespace characters that occur in git's output
Whitespace == {" ", "\n", "\t"}

\* Python's optional values: None is the empty tuple, a value v is <<v>>
None == <<>>

Some(v) == <<v>>

\* p occurs in s at index i
StartsWithAt(s, i, p) ==
    /\ i >= 1
    /\ i + Len(p) - 1 <= Len(s)
    /\ SubSeq(s, i, i + Len(p) - 1) = p

\* index of the first occurrence of p in s at or after i, 0 when there is none
RECURSIVE Find(_, _, _)
Find(s, p, i) ==
    IF i + Len(p) - 1 > Len(s) THEN 0
    ELSE IF StartsWithAt(s, i, p) THEN i
    ELSE Find(s, p, i + 1)

\* `p in s`
Contains(s, p) == Find(s, p, 1) # 0

\* index of the last character of the longest run of characters of cls that
\* starts at i; i - 1 when s[i] is not in cls (a greedy [cls]* from i)
RECURSIVE RunEnd(_, _, _)
RunEnd(s, i, cls) ==
    IF i <= Len(s) /\ Ch(s, i) \in cls THEN RunEnd(s, i + 1, cls) ELSE i - 1

\* str.lower()
LowerCh(c) ==
    IF \E i \in 1..26 : Ch(UpperLetters, i) = c
    THEN Ch(LowerLetters, CHOOSE i \in 1..26 : Ch(UpperLetters, i) = c)
    ELSE c

RECURSIVE Lower(_)
Lower(s) ==
    IF Len(s) <= 1 THEN LowerCh(s)
    ELSE Lower(SubSeq(s, 1, Len(s) \div 2)) \o Lower(SubSeq(s, Len(s) \div 2 + 1, Len(s)))

\* str.strip()
RECURSIVE RunStart(_, _, _)
RunStart(s, i, cls) ==
    IF i >= 1 /\ Ch(s, i) \in cls THEN RunStart(s, i - 1, cls) ELSE i + 1

\* s[a-1:b] with 1-based inclusive bounds
Slice(s, a, b) == IF a > b THEN "" ELSE SubSeq(s, a, b)

Strip(s) == Slice(s, RunEnd(s, 1, Whitespace) + 1, RunStart(s, Len(s), Whitespace) - 1)

\* Pieces of a regular expression, matched left to right.  A piece takes the
\* index e of the last character matched so far (0 at the start of the text)
\* and gives the index of the last character it matches, or Fail.  None of the
\* patterns of the source needs backtracking: a repeated class is never
\* followed by a character of that class.
Fail == -1

\* [cls]+
Plus(s, e, cls) ==
    IF e = Fail \/ RunEnd(s, e + 1, cls) = e THEN Fail ELSE RunEnd(s, e + 1, cls)

\* [cls]*
Star(s, e, cls) == IF e = Fail THEN Fail ELSE RunEnd(s, e + 1, cls)

\* one character of cls, or none
One_Optional(s, e, cls) == IF e # Fail /\ Ch(s, e + 1) \in cls THEN e + 1 ELSE e

\* one character of cls
One(s, e, cls) == IF e # Fail /\ Ch(s, e + 1) \in cls THEN e + 1 ELSE Fail

\* the literal text p
Lit(s, e, p) == IF e # Fail /\ StartsWithAt(s, e + 1, p) THEN e + Len(p) ELSE Fail

\* (?:...)? : x is what the group gives from e; the group is skipped when it fails
Opt(e, x) == IF x = Fail THEN e ELSE x

DigitVal(c) == CHOOSE d \in 0..9 : Ch("0123456789", d + 1) = c

\* int(s) for a string of decimal digits
RECURSIVE ParseInt(_)
ParseInt(s) ==
    IF s = "" THEN 0
    ELSE 10 * ParseInt(SubSeq(s, 1, Len(s) - 1)) + DigitVal(Ch(s, Len(s)))

\* str(n) for n >= 0
RECURSIVE IntToStr(_)
IntToStr(n) ==
    IF n < 10 THEN Ch("0123456789", n + 1)
    ELSE IntToStr(n \div 10) \o Ch("0123456789", (n % 10) + 1)

(***************************************************************************)
(* The repository (the environment the queries read).                      *)
(***************************************************************************)
VARIABLES
    tag,      \* name of the version tag that describes HEAD, NoTag when none does
    older,    \* number of commits at or before that tag (0 without a tag)
    since,    \* the commits after the tag, newest first, as indexes of Messages
    tree,     \* the working tree: "clean", "staged" or "unstaged" changes, or
              \* "broken" when the index file is corrupt
    site,     \* where the program runs: in the repository ("repo"), in a directory
              \* outside any repository ("norepo"), on a machine without git ("nogit")
    ret,      \* what the last evaluated property of GitReleaseStatus gave
    prev,     \* what the call before gave, when two calls are made in a row
    cwd       \* the current directory of the process: work_dir ("work_dir") or
              \* the directory of another repository ("elsewhere")

repo == <<tag, older, since, tree, site>>

vars == <<tag, older, since, tree, site, ret, prev, cwd>>

Dirs == {"work_dir", "elsewhere"}

Sites == {"repo", "norepo", "nogit"}

NoTag == ""

\* tag names a repository may carry; all match describe's --match "v[0-9]*"
VersionTagNames == {"v0.0.0", "v0.3.0", "v1.0.0", "v2.1.0", "v9.9.9"}

\* names that are not plain vMAJOR.MINOR.PATCH
OddTagNames == {"v1.2.3-5", "v1.2.3-gabc", "v1.2", "v1.2.3.4"}

TagNames == VersionTagNames \cup OddTagNames

\* commit messages as authored, one string per line
Messages ==
    << <<"feat: a">>,
       <<"fix: b">>,
       <<"docs: c">>,
       <<"feat!: d">>,
       <<"fix: e", "", "BREAKING CHANGE: f">>,
       <<"fix(x): e", "", "p", "", "BREAKING-CHANGE: f">>,
       <<"oops no colon here">>,
       <<"fix: g", "", "commit abc1ef", "", "log size 3">>,
       <<"a|b: c">>,
       <<"fix: ">>,
       <<"fix: é">>,
       <<"feat:add x">>,
       <<"feat:   add x">> >>

\* The model keeps the messages of the commits after the tag only: a tag is put
\* on a history whose commits all carry this message.
TaggedMessage == <<"feat: a">>

TreeStates == {"clean", "staged", "unstaged", "broken"}

\* what git prints on stderr when it cannot read the index
IndexCorrupt == "fatal: .git/index: index file smaller than expected\n"

NumCommits == older + Len(since)

\* full hash of the k-th commit of the history (1 is the oldest)
HashOf(k) == "abc" \o IntToStr(k) \o "ef"

\* git's abbreviated hash
ShortHash(h) == SubSeq(h, 1, 4)

HeadHash == HashOf(NumCommits)

\* hash of the i-th newest commit after the tag
SinceHash(i) == HashOf(NumCommits - i + 1)

(***************************************************************************)
(* What git answers to the queries of head.                                *)
(***************************************************************************)
\* the suffix describe --dirty --broken appends for the state of the working tree
TreeMark == IF tree = "clean" THEN "" ELSE IF tree = "broken" THEN "-broken" ELSE "-dirty"

\* git describe --tags --match "v[0-9]*" --dirty --broken; with a corrupt index
\* the diff-index child of describe fails: its message goes to stderr and the
\* name gets the suffix -broken
GitDescribe ==
    IF site = "norepo"
    THEN [stdout |-> "",
          stderr |-> "fatal: not a git repository (or any of the parent directories): .git\n"]
    ELSE IF tag = NoTag
    THEN [stdout |-> "",
          stderr |-> "fatal: No names found, cannot describe anything.\n"]
    ELSE [stdout |-> tag
                     \o (IF Len(since) > 0
                         THEN "-" \o IntToStr(Len(since)) \o "-g" \o ShortHash(HeadHash)
                         ELSE "")
                     \o TreeMark
                     \o "\n",
          stderr |-> IF tree = "broken" THEN IndexCorrupt ELSE ""]

\* git rev-parse --short HEAD
GitRevParse ==
    IF NumCommits = 0
    THEN [stdout |-> "HEAD\n",
          stderr |-> "fatal: Needed a single revision\n"]
    ELSE [stdout |-> ShortHash(HeadHash) \o "\n", stderr |-> ""]

\* git rev-list --count HEAD
GitRevList == [stdout |-> IntToStr(NumCommits) \o "\n", stderr |-> ""]

\* git diff --quiet: the exit status, 1 when the working tree differs from the
\* index, 128 when the index cannot be read
GitDiffQuiet == IF tree = "unstaged" THEN 1 ELSE IF tree = "broken" THEN 128 ELSE 0

\* the message of a commit as git log prints it: every line indented by four spaces
RECURSIVE Indented(_)
Indented(lines) ==
    IF lines = <<>> THEN ""
    ELSE "    " \o Head(lines) \o "\n" \o Indented(Tail(lines))

\* one commit of the log without its framing: author and date, a blank line, the message
LogBody(lines) == "Author: A\nDate:   D\n\n" \o Indented(lines)

\* characters whose UTF-8 encoding takes two bytes; all others of the model take one
WideChars == {"é"}

\* the number of bytes of the UTF-8 encoding of s
ByteLen(s) == Len(s) + Cardinality({i \in 1..Len(s) : Ch(s, i) \in WideChars})

\* one block of git log --no-decorate --log-size, body being the commit's LogBody;
\* git gives the size of the message in bytes
LogBlock(hash, body) ==
    "commit " \o hash \o "\n"
    \o "log size " \o IntToStr(ByteLen(body)) \o "\n"
    \o body

\* the history of the repository in the other directory, which has no tag
ElsewhereCommits == << <<"def1ab", <<"feat!: z">> >> >>

\* the commits git log lists in the repository at work_dir, newest first, as
\* <<hash, message lines>>: all of the history without a range, the commits after
\* the tag for "<tag>.."
WorkDirCommits(range) ==
    LET after == [i \in 1..Len(since) |-> <<SinceHash(i), Messages[since[i]]>>]
        upto  == [i \in 1..older |-> <<HashOf(older - i + 1), TaggedMessage>>]
    IN  IF range = None THEN after \o upto ELSE after

\* the commits git log lists: Popen gets no cwd argument, so git log runs in the
\* current directory of the process
LoggedCommits(range) ==
    IF cwd = "elsewhere" THEN ElsewhereCommits ELSE WorkDirCommits(range)

RECURSIVE LogText(_)
LogText(cs) ==
    IF cs = <<>> THEN ""
    ELSE LogBlock(cs[1][1], LogBody(cs[1][2]))
         \o (IF Len(cs) > 1 THEN "\n" ELSE "")
         \o LogText(Tail(cs))

\* a range "<name>.." that names no tag of the repository makes git log fail
RangeResolves(range) ==
    range = None \/ (cwd = "work_dir" /\ range[1] = tag \o "..")

\* git log --no-decorate --log-size [range]: stdout (stderr is discarded);
\* a failing git log prints nothing
GitLog(range) ==
    IF RangeResolves(range) THEN LogText(LoggedCommits(range)) ELSE ""

(***************************************************************************)
(* GitReleaseStatus.head                                                   *)
(***************************************************************************)
\* what a property evaluation gives: a returned value or a raised exception
Return(v) == [exc |-> "", arg |-> "", val |-> v]

Raise(e, a) == [exc |-> e, arg |-> a, val |-> ""]

HexChars == Digits \cup {"a", "b", "c", "d", "e", "f"}

\* [0-9]+\.[0-9]+\.[0-9]+ tried at index i: index of its last character, or Fail
VersionEndAt(s, i) ==
    Plus(s, Lit(s, Plus(s, Lit(s, Plus(s, i - 1, Digits), "."), Digits), "."), Digits)

\* re.search: the leftmost index at or after i where the version pattern matches,
\* 0 when there is none
RECURSIVE VersionSearch(_, _)
VersionSearch(s, i) ==
    IF i > Len(s) THEN 0
    ELSE IF VersionEndAt(s, i) # Fail THEN i
    ELSE VersionSearch(s, i + 1)

\* (?:\-([0-9]+))? after index e
CountEnd(s, e) == Opt(e, Plus(s, Lit(s, e, "-"), Digits))

\* (?:\-g([0-9a-f]+))? after index e
HashEnd(s, e) == Opt(e, Plus(s, Lit(s, e, "-g"), HexChars))

\* (?:-(dirty))? after index e
DirtyEnd(s, e) == Opt(e, Lit(s, e, "-dirty"))

\* the group ([0-9a-f]+) of a hash part s[e2+1..e3], written (g[0-9a-f]+)
HashGroup_KeepsG(s, e2, e3) == IF e3 > e2 THEN Some(SubSeq(s, e2 + 2, e3)) ELSE None

\* the group ([0-9a-f]+) of a hash part s[e2+1..e3] ("-g" and the hash), None
\* when the part is empty
HashGroup(s, e2, e3) == IF e3 > e2 THEN Some(SubSeq(s, e2 + 3, e3)) ELSE None

\* re.search(r"([0-9]+\.[0-9]+\.[0-9]+)(?:\-([0-9]+))?(?:\-g([0-9a-f]+))?(?:-(dirty))?")
\* None, or the four groups of the match
DescribeMatch(s) ==
    LET Groups(st, e1, e2, e3, e4) ==
            Some([version   |-> SubSeq(s, st, e1),
                  rev_count |-> IF e2 > e1 THEN Some(SubSeq(s, e1 + 2, e2)) ELSE None,
                  rev_hash  |-> HashGroup(s, e2, e3),
                  dirty     |-> IF e4 > e3 THEN Some("dirty") ELSE None])
        Dirty(st, e1, e2, e3) == Groups(st, e1, e2, e3, DirtyEnd(s, e3))
        Hash(st, e1, e2)      == Dirty(st, e1, e2, HashEnd(s, e2))
        Count(st, e1)         == Hash(st, e1, CountEnd(s, e1))
        Version(st)           == IF st = 0 THEN None ELSE Count(st, VersionEndAt(s, st))
    IN  Version(VersionSearch(s, 1))

\* the branches on the parsed groups (which version string head returns)
ComposeTagged(version, rev_count, rev_hash, dirty) ==
    IF rev_count # None
    THEN IF rev_hash = None
         THEN Raise("GitUnexpectedError", "cannot get hash of current commit")
         ELSE Return(version \o "+" \o rev_count[1] \o "." \o rev_hash[1] \o "."
                     \o (IF dirty # None THEN dirty[1] ELSE "clean"))
    ELSE IF dirty # None
    THEN Return(version \o "+0.dirty")
    ELSE IF rev_count = None /\ rev_hash = None /\ dirty = None
    THEN Return(version)
    ELSE Raise("GitUnexpectedError", "unexpected git describe output")

\* HeadUntagged comparing git's message without lower()
HeadUntagged_CaseSensitive(revparse, revlist, diffrc) ==
    IF revparse.stderr # ""
    THEN IF Contains(revparse.stderr, "needed a single revision")
         THEN Raise("GitRepositoryEmpty", "")
         ELSE Raise("GitUnexpectedError", revparse.stderr)
    ELSE IF revlist.stderr # ""
    THEN Raise("GitUnexpectedError", revlist.stderr)
    ELSE Return("0.0.0+" \o Strip(revlist.stdout) \o "." \o Strip(revparse.stdout)
                \o "." \o (IF diffrc # 0 THEN "dirty" ELSE "clean"))

\* HeadUntagged reading the exit status of git diff --quiet the wrong way round
HeadUntagged_DirtyInverted(revparse, revlist, diffrc) ==
    IF revparse.stderr # ""
    THEN IF Contains(Lower(revparse.stderr), "needed a single revision")
         THEN Raise("GitRepositoryEmpty", "")
         ELSE Raise("GitUnexpectedError", revparse.stderr)
    ELSE IF revlist.stderr # ""
    THEN Raise("GitUnexpectedError", revlist.stderr)
    ELSE Return("0.0.0+" \o Strip(revlist.stdout) \o "." \o Strip(revparse.stdout)
                \o "." \o (IF diffrc = 0 THEN "dirty" ELSE "clean"))

\* the path taken when describe says that no tag describes HEAD
HeadUntagged(revparse, revlist, diffrc) ==
    IF revparse.stderr # ""
    THEN IF Contains(Lower(revparse.stderr), "needed a single revision")
         THEN Raise("GitRepositoryEmpty", "")
         ELSE Raise("GitUnexpectedError", revparse.stderr)
    ELSE IF revlist.stderr # ""
    THEN Raise("GitUnexpectedError", revlist.stderr)
    ELSE Return("0.0.0+" \o Strip(revlist.stdout) \o "." \o Strip(revparse.stdout)
                \o "." \o (IF diffrc # 0 THEN "dirty" ELSE "clean"))

\* the path taken when describe prints a name: m is the match on its output
HeadTagged(stdout, m) ==
    IF m = None
    THEN Raise("GitTagVersionNotSemVer", stdout)
    ELSE ComposeTagged(m[1].version, m[1].rev_count, m[1].rev_hash, m[1].dirty)

HeadOf(describe, revparse, revlist, diffrc) ==
    IF describe.stderr # ""
    THEN IF Contains(describe.stderr, "not a git repository")
         THEN Raise("GitRepositoryNotFound", "")
         ELSE IF \/ Contains(Lower(describe.stderr), "no names found")
                 \/ Contains(Lower(describe.stderr), "no tags can describe")
         THEN HeadUntagged(revparse, revlist, diffrc)
         ELSE Raise("GitUnexpectedError", describe.stderr)
    ELSE IF Contains(describe.stdout, "-broken")
    THEN Raise("GitRepositoryBroken", "")
    ELSE HeadTagged(describe.stdout, DescribeMatch(describe.stdout))

\* subprocess.run raises FileNotFoundError when there is no git executable
HeadProp ==
    IF site = "nogit" THEN Raise("GitNotFound", "")
    ELSE HeadOf(GitDescribe, GitRevParse, GitRevList, GitDiffQuiet)

(***************************************************************************)
(* GitReleaseStatus.latest                                                 *)
(***************************************************************************)
\* re.search(r"^([0-9]+\.[0-9]+\.+[0-9]+)", head): index of the last character of
\* the match, or Fail
LatestEnd(s) ==
    Plus(s, Plus(s, Plus(s, Lit(s, Plus(s, 0, Digits), "."), Digits), {"."}), Digits)

\* latest that returns head as it is, build metadata included
LatestOf_WholeHead(head) ==
    IF head.exc # "" THEN head
    ELSE IF LatestEnd(head.val) = Fail
    THEN Raise("GitTagVersionNotSemVer", "head is: " \o head.val)
    ELSE Return(head.val)

LatestOf(head) ==
    IF head.exc # "" THEN head
    ELSE IF LatestEnd(head.val) = Fail
    THEN Raise("GitTagVersionNotSemVer", "head is: " \o head.val)
    ELSE Return(SubSeq(head.val, 1, LatestEnd(head.val)))

LatestProp == LatestOf(HeadProp)

(***************************************************************************)
(* GitReleaseStatus.commits                                                *)
(***************************************************************************)
\* the git log command line's range argument
LogRange(latest) == IF latest # "0.0.0" THEN Some("v" \o latest \o "..") ELSE None

\* StringIO.readline() at position p: index of the last character read
\* (p - 1 at the end of the text)
LineEnd(s, p) ==
    LET UpTo(n) == IF n = 0 THEN Len(s) ELSE n
    IN  IF p > Len(s) THEN p - 1 ELSE UpTo(Find(s, "\n", p))

\* re.search(prefix ([cls]+), line) from index i on: the group, or None
RECURSIVE SearchGroup(_, _, _, _)
SearchGroup(line, prefix, cls, i) ==
    LET Group(at, e) ==
            IF e # Fail THEN Some(SubSeq(line, at + Len(prefix), e))
            ELSE SearchGroup(line, prefix, cls, at + 1)
        Prefix(at) ==
            IF at = 0 THEN None
            ELSE Group(at, Plus(line, at + Len(prefix) - 1, cls))
    IN  Prefix(Find(line, prefix, i))

\* re.search(r"commit ([0-9|a-f]+)", line)
RevisionOf(line) == SearchGroup(line, "commit ", HexChars \cup {"|"}, 1)

\* re.search(r"log size (\d+)", line)
LogSizeOf(line) == SearchGroup(line, "log size ", Digits, 1)

\* [a-z|A-Z|0-9|\.|\_|\-]
TypeChars == Letters \cup Digits \cup {"|", ".", "_", "-"}

\* (?:\(([a-z|A-Z|0-9|\.|\_|\-]+)\))? after index e
ScopeEnd(s, e) == Opt(e, Lit(s, Plus(s, Lit(s, e, "("), TypeChars), ")"))

\* (\!)? after index e
BangEnd(s, e) == Opt(e, Lit(s, e, "!"))

\* (.*)$ after index e: index of the last character of the group, or Fail; "."
\* matches no newline, "$" matches at the end and before a last newline
SummaryEnd(s, e) ==
    LET UpTo(n) == IF n = 0 THEN Len(s) ELSE IF n = Len(s) THEN n - 1 ELSE Fail
    IN  IF e = Fail THEN Fail ELSE UpTo(Find(s, "\n", e + 1))

\* re.match(r"^\s*(type)(?:\((scope)\))?(\!)?\:\s(.*)$", subject): None or the groups
SubjectMatch(s) ==
    LET Groups(t0, t1, s1, q, w, z) ==
            IF z = Fail THEN None
            ELSE Some([type    |-> SubSeq(s, t0 + 1, t1),
                       scope   |-> IF s1 > t1 THEN Some(SubSeq(s, t1 + 2, s1 - 1))
                                   ELSE None,
                       bang    |-> IF q > s1 THEN Some("!") ELSE None,
                       summary |-> Slice(s, w + 1, z)])
        Summary(t0, t1, s1, q, w) == Groups(t0, t1, s1, q, w, SummaryEnd(s, w))
        Colon(t0, t1, s1, q) == Summary(t0, t1, s1, q, One(s, Lit(s, q, ":"), Whitespace))
        Bang(t0, t1, s1)     == Colon(t0, t1, s1, BangEnd(s, s1))
        Scope(t0, t1)        == Bang(t0, t1, ScopeEnd(s, t1))
        Type(t0)             == Scope(t0, Plus(s, t0, TypeChars))
    IN  Type(Star(s, 0, Whitespace))

\* re.sub(r"\n\s+", "\n", s), from index i on
RECURSIVE SubNewlineSpace(_, _)
SubNewlineSpace(s, i) ==
    IF i > Len(s) THEN ""
    ELSE IF Ch(s, i) = "\n" /\ Ch(s, i + 1) \in Whitespace
    THEN "\n" \o SubNewlineSpace(s, RunEnd(s, i + 1, Whitespace) + 1)
    ELSE Ch(s, i) \o SubNewlineSpace(s, i + 1)

\* rest of the commit body without unnecessary whitespace
DescriptionOf(rest) == SubNewlineSpace(Strip(rest), 1)

\* the footer test on the description
HasBreakingFooter(description) ==
    \/ Contains(description, "\nBREAKING CHANGE")
    \/ Contains(description, "\nBREAKING-CHANGE")

\* `while commit_body.readline().strip(): pass`: the position after the first
\* blank line at or after p (after the end of the text when there is none)
RECURSIVE SkipHeader(_, _)
SkipHeader(body, p) ==
    LET Line(e) == IF Strip(SubSeq(body, p, e)) = "" THEN e + 1
                   ELSE SkipHeader(body, e + 1)
    IN  Line(LineEnd(body, p))

\* the record of a commit from the match m on its subject and its description, as
\* the code is written: a subject that does not match leaves conventional_commit
\* None, and .group(1) is outside the try
CommitRecord(revision, m, description) ==
    IF m = None
    THEN Raise("AttributeError", "'NoneType' object has no attribute 'group'")
    ELSE Return([hash        |-> revision,
                 type        |-> m[1].type,
                 scope       |-> m[1].scope,
                 breaking    |-> m[1].bang # None \/ HasBreakingFooter(description),
                 summary     |-> m[1].summary,
                 description |-> IF description = "" THEN None
                                 ELSE Some(description)])

\* one commit body into its record: the header is skipped, the next line is the
\* subject, what follows is the description
ParseCommit(revision, body) ==
    LET Subject(p, e) ==
            CommitRecord(revision,
                         SubjectMatch(Strip(SubSeq(body, p, e))),
                         DescriptionOf(SubSeq(body, e + 1, Len(body))))
        Header(p) == Subject(p, LineEnd(body, p))
    IN  Header(SkipHeader(body, 1))

\* commits[revision] = {...} of an OrderedDict: a known key keeps its place
Put(commits, rec) ==
    IF \E i \in DOMAIN commits : commits[i].hash = rec.hash
    THEN [i \in DOMAIN commits |->
             IF commits[i].hash = rec.hash THEN rec ELSE commits[i]]
    ELSE Append(commits, rec)

\* a read that stops one character before the size the log gives
ReadEnd_OneShort(out, p, size) ==
    IF p - 2 + size > Len(out) THEN Len(out) ELSE p - 2 + size

\* git_output.read(log_size) from position p: index of the last character read
ReadEnd(out, p, size) == IF p - 1 + size > Len(out) THEN Len(out) ELSE p - 1 + size

\* the `while True` loop over git's output, from position pos
RECURSIVE ParseLog(_, _, _)
ParseLog(out, pos, commits) ==
    LET Rest(e3, c) ==
            IF c.exc # "" THEN c
            ELSE ParseLog(out, LineEnd(out, e3 + 1) + 1, Put(commits, c.val))
        Body(rev, e2, e3) == Rest(e3, ParseCommit(rev[1], SubSeq(out, e2 + 1, e3)))
        Size(rev, e2, sz) ==
            IF rev = None \/ sz = None
            THEN Raise("AttributeError", "'NoneType' object has no attribute 'group'")
            ELSE Body(rev, e2, ReadEnd(out, e2 + 1, ParseInt(sz[1])))
        SizeLine(rev, e1, e2) == Size(rev, e2, LogSizeOf(SubSeq(out, e1 + 1, e2)))
        CommitLine(e1) ==
            SizeLine(RevisionOf(SubSeq(out, pos, e1)), e1, LineEnd(out, e1 + 1))
    IN  IF pos > Len(out) THEN Return(commits) ELSE CommitLine(LineEnd(out, pos))

CommitsOf(latest, log) ==
    IF latest.exc # "" THEN latest ELSE ParseLog(log, 1, <<>>)

\* what the log query prints for the value of self.latest
LogOf(latest) == IF latest.exc # "" THEN "" ELSE GitLog(LogRange(latest.val))

(***************************************************************************)
(* GitReleaseStatus.next                                                   *)
(***************************************************************************)
\* a numeric identifier of semver: 0|[1-9][0-9]*
IsNumeric(s) == s # "" /\ (s = "0" \/ Head(s) # "0")

\* semver.parse_version_info on a string of digits and dots: None is ValueError
SemverParse(s) ==
    LET Parts(a, b, c) ==
            IF /\ c = Len(s)
               /\ IsNumeric(SubSeq(s, 1, a))
               /\ IsNumeric(SubSeq(s, a + 2, b))
               /\ IsNumeric(SubSeq(s, b + 2, c))
            THEN Some([major |-> ParseInt(SubSeq(s, 1, a)),
                       minor |-> ParseInt(SubSeq(s, a + 2, b)),
                       patch |-> ParseInt(SubSeq(s, b + 2, c))])
            ELSE None
        Minor(a, b) == Parts(a, b, Plus(s, Lit(s, b, "."), Digits))
        Major(a)    == Minor(a, Plus(s, Lit(s, a, "."), Digits))
    IN  Major(Plus(s, 0, Digits))

\* VersionInfo.bump_major / bump_minor / bump_patch and str()
BumpMajor(v) == [major |-> v.major + 1, minor |-> 0, patch |-> 0]

\* bump_minor that leaves patch as it is
BumpMinor_KeepsPatch(v) == [major |-> v.major, minor |-> v.minor + 1, patch |-> v.patch]

BumpMinor(v) == [major |-> v.major, minor |-> v.minor + 1, patch |-> 0]

BumpPatch(v) == [major |-> v.major, minor |-> v.minor, patch |-> v.patch + 1]

VersionStr(v) ==
    IntToStr(v.major) \o "." \o IntToStr(v.minor) \o "." \o IntToStr(v.patch)

\* NextVersion without the rule for major version zero
NextVersion_BreakingAlwaysMajor(version, commits) ==
    IF \E i \in DOMAIN commits : commits[i].breaking
    THEN VersionStr(BumpMajor(version))
    ELSE IF \E i \in DOMAIN commits : commits[i].type = "feat"
    THEN VersionStr(BumpMinor(version))
    ELSE IF \E i \in DOMAIN commits : commits[i].type = "fix"
    THEN VersionStr(BumpMinor(version))
    ELSE VersionStr(version)

\* NextVersion that bumps the patch version for a history of other commits
NextVersion_OtherBumpsPatch(version, commits) ==
    IF \E i \in DOMAIN commits : commits[i].breaking
    THEN IF version.major = 0
         THEN VersionStr(BumpMinor(version))
         ELSE VersionStr(BumpMajor(version))
    ELSE IF \E i \in DOMAIN commits : commits[i].type = "feat"
    THEN VersionStr(BumpMinor(version))
    ELSE IF \E i \in DOMAIN commits : commits[i].type = "fix"
    THEN VersionStr(BumpMinor(version))
    ELSE IF commits # <<>>
    THEN VersionStr(BumpPatch(version))
    ELSE VersionStr(version)

\* NextVersion that looks at the newest commit only
NextVersion_NewestOnly(version, commits) ==
    IF commits # <<>> /\ commits[1].breaking
    THEN IF version.major = 0
         THEN VersionStr(BumpMinor(version))
         ELSE VersionStr(BumpMajor(version))
    ELSE IF commits # <<>> /\ commits[1].type = "feat"
    THEN VersionStr(BumpMinor(version))
    ELSE IF commits # <<>> /\ commits[1].type = "fix"
    THEN VersionStr(BumpMinor(version))
    ELSE VersionStr(version)

\* the three loops over the commits and the final return
NextVersion(version, commits) ==
    IF \E i \in DOMAIN commits : commits[i].breaking
    THEN IF version.major = 0
         THEN VersionStr(BumpMinor(version))
         ELSE VersionStr(BumpMajor(version))
    ELSE IF \E i \in DOMAIN commits : commits[i].type = "feat"
    THEN VersionStr(BumpMinor(version))
    ELSE IF \E i \in DOMAIN commits : commits[i].type = "fix"
    THEN VersionStr(BumpMinor(version))
    ELSE VersionStr(version)

\* next from the values of self.latest and self.commits
NextOf(latest, commits) ==
    LET From(version) ==
            IF version = None
            THEN Raise("GitTagVersionNotSemVer", latest.val)
            ELSE IF commits.exc # "" THEN commits
            ELSE Return(NextVersion(version[1], commits.val))
    IN  IF latest.exc # "" THEN latest ELSE From(SemverParse(latest.val))

(***************************************************************************)
(* GitReleaseStatus.group_commits                                          *)
(***************************************************************************)
\* the lists group_commits is called with (["feat", "fix"] is the default)
GroupTypes == {<<"feat", "fix">>, <<"docs", "fix", "docs">>}

\* set(types)
TypeSet(types) == {types[i] : i \in DOMAIN types}

\* GroupLoop that puts a commit at the front of its group
RECURSIVE GroupLoop_Prepend(_, _, _)
GroupLoop_Prepend(commits, i, grouped) ==
    IF i > Len(commits) THEN grouped
    ELSE GroupLoop_Prepend(commits, i + 1,
                   IF commits[i].type \in DOMAIN grouped
                   THEN [grouped EXCEPT ![commits[i].type] = <<commits[i]>> \o @]
                   ELSE grouped)

\* the loop over self.commits.items() from the i-th commit on: a commit of a
\* requested type is appended to the list of its type (the record already
\* carries its key of self.commits as hash)
RECURSIVE GroupLoop(_, _, _)
GroupLoop(commits, i, grouped) ==
    IF i > Len(commits) THEN grouped
    ELSE GroupLoop(commits, i + 1,
                   IF commits[i].type \in DOMAIN grouped
                   THEN [grouped EXCEPT ![commits[i].type] = Append(@, commits[i])]
                   ELSE grouped)

\* GroupedHistory that starts with no key and drops the types without commits
GroupedHistory_NoEmptyLists(types, commits) ==
    LET Pairs(grouped) ==
            {[type |-> t, commits |-> grouped[t]] :
                t \in {u \in DOMAIN grouped : grouped[u] # <<>>}}
    IN  Pairs(GroupLoop(commits, 1, [t \in TypeSet(types) |-> <<>>]))

\* grouped_history, as the set of its (key, list) pairs
GroupedHistory(types, commits) ==
    LET Pairs(grouped) == {[type |-> t, commits |-> grouped[t]] : t \in DOMAIN grouped}
    IN  Pairs(GroupLoop(commits, 1, [t \in TypeSet(types) |-> <<>>]))

\* group_commits(types) from the value of self.commits
GroupOf(types, commits) ==
    IF commits.exc # "" THEN commits ELSE Return(GroupedHistory(types, commits.val))

(***************************************************************************)
(* command_line                                                            *)
(***************************************************************************)
\* the argument vectors kyanit-versioning is started with
ArgVectors ==
    {<<>>, <<"-c">>, <<"-c", "docs">>, <<"--changelog", "docs", "fix">>,
     <<"-a">>, <<"-c", "-a">>, <<"-v", "-n", "-d">>}

\* a store_true option is among the arguments
HasOpt(argv, short, long) == \E i \in DOMAIN argv : argv[i] \in {short, long}

\* nargs="*": the arguments from the i-th on, up to the next option
RECURSIVE TypeArgs(_, _)
TypeArgs(argv, i) ==
    IF i > Len(argv) \/ Ch(argv[i], 1) = "-" THEN <<>>
    ELSE <<argv[i]>> \o TypeArgs(argv, i + 1)

\* parser.parse_args: changelog is None without -c, the list of the TYPEs with it
ParseArgs(argv) ==
    [all       |-> HasOpt(argv, "-a", "--all"),
     latest    |-> HasOpt(argv, "-v", "--latest"),
     next      |-> HasOpt(argv, "-n", "--next"),
     describe  |-> HasOpt(argv, "-d", "--describe"),
     changelog |-> IF HasOpt(argv, "-c", "--changelog")
                   THEN Some(TypeArgs(argv,
                            1 + CHOOSE i \in DOMAIN argv : argv[i] \in {"-c", "--changelog"}))
                   ELSE None]

\* _print_status(proc_name, message, end=end), error being False
PrintStatus(proc_name, message, end) ==
    "kyanit-versioning: " \o proc_name \o ": " \o message \o end

\* `if args.latest or args.all`
LatestSection(args, latest) ==
    IF ~(args.latest \/ args.all) THEN Return("")
    ELSE IF latest.exc # "" THEN latest
    ELSE Return(PrintStatus("last release",
                            IF latest.val = "0.0.0" THEN "no release yet." ELSE latest.val,
                            "\n"))

\* `if args.next or args.all`
NextSection(args, latest, next) ==
    IF ~(args.next \/ args.all) THEN Return("")
    ELSE IF next.exc # "" THEN next
    ELSE Return(PrintStatus("next release",
                            IF next.val = latest.val THEN "next release not needed."
                            ELSE next.val,
                            "\n"))

\* `if args.describe or args.all`
DescribeSection(args, head) ==
    IF ~(args.describe \/ args.all) THEN Return("")
    ELSE IF head.exc # "" THEN head
    ELSE Return(PrintStatus("head commit version", head.val, "\n"))

\* s[:n]
Prefix(s, n) == SubSeq(s, 1, IF Len(s) < n THEN Len(s) ELSE n)

\* changelog[type_]
ListOf(changelog, type) == (CHOOSE g \in changelog : g.type = type).commits

\* the lines of the commits of one type, from the i-th on
RECURSIVE CommitLines(_, _)
CommitLines(commits, i) ==
    IF i > Len(commits) THEN ""
    ELSE " - " \o (IF commits[i].breaking THEN "BREAKING: " ELSE "")
         \o (IF commits[i].scope # None THEN "[" \o commits[i].scope[1] \o "] " ELSE "")
         \o commits[i].summary
         \o " (" \o Prefix(commits[i].hash, 8) \o ")\n"
         \o CommitLines(commits, i + 1)

\* `for commit_type in args.changelog`, from the i-th type on
RECURSIVE TypeSections(_, _, _)
TypeSections(types, i, changelog) ==
    IF i > Len(types) THEN ""
    ELSE (IF ListOf(changelog, types[i]) # <<>>
          THEN types[i] \o ":\n" \o CommitLines(ListOf(changelog, types[i]), 1) \o "\n"
          ELSE "")
         \o TypeSections(types, i + 1, changelog)

\* the aggregate of the last line, from the i-th type on
RECURSIVE Aggregate(_, _, _)
Aggregate(types, i, changelog) ==
    IF i > Len(types) THEN ""
    ELSE (IF i > 1 THEN ", " ELSE "")
         \o IntToStr(Len(ListOf(changelog, types[i]))) \o " " \o types[i] \o " commit(s)"
         \o Aggregate(types, i + 1, changelog)

\* what is printed for the grouped history changelog of the given types
ChangelogText(types, changelog) ==
    (IF \E g \in changelog : g.commits # <<>>
     THEN PrintStatus("changelog", "", "\n\n") \o TypeSections(types, 1, changelog)
     ELSE "")
    \o PrintStatus("changelog", Aggregate(types, 1, changelog) \o " since last release", "\n")

\* the truth value of args.changelog: None and the empty list are false
ChangelogGiven(args) == args.changelog # None /\ args.changelog[1] # <<>>

\* `if args.changelog or args.all`
ChangelogSection(args, commits) ==
    LET Text(types) == ChangelogText(types, GroupedHistory(types, commits.val))
    IN  IF ~(ChangelogGiven(args) \/ args.all) THEN Return("")
        ELSE IF commits.exc # "" THEN commits
        ELSE IF ChangelogGiven(args) THEN Return(Text(args.changelog[1]))
        ELSE Return(Text(<<"feat", "fix">>))

\* one section after the other: the first exception ends the program
Sections(a, b, c, d) ==
    IF a.exc # "" THEN a
    ELSE IF b.exc # "" THEN b
    ELSE IF c.exc # "" THEN c
    ELSE IF d.exc # "" THEN d
    ELSE Return(a.val \o b.val \o c.val \o d.val)

\* command_line(argv) from the values of the properties of repo_status: what it
\* prints, or the exception that ends it
CommandLineOf(args, head, latest, commits, next) ==
    Sections(LatestSection(args, latest),
             NextSection(args, latest, next),
             DescribeSection(args, head),
             ChangelogSection(args, commits))

(***************************************************************************)
(* genrelease: bump_version_from_hist                                      *)
(***************************************************************************)
\* the type string get_commit_types gives a commit: its type, with "!" appended
\* for a breaking change
HistType(commit) == commit.type \o (IF commit.breaking THEN "!" ELSE "")

\* list(commit_types.values()) reduced to the type strings, for the given commits
HistTypes(commits) == [i \in DOMAIN commits |-> HistType(commits[i])]

\* bump_version_from_hist that bumps the minor version for a fix
bump_version_from_hist_FixBumpsMinor(start_version, commit_types) ==
    LET From(version) ==
            IF version = None
            THEN Raise("ValueError", start_version \o " is not valid SemVer string")
            ELSE IF \E i \in DOMAIN commit_types : Contains(commit_types[i], "!")
            THEN IF version[1].major = 0
                 THEN Return(VersionStr(BumpMinor(version[1])))
                 ELSE Return(VersionStr(BumpMajor(version[1])))
            ELSE IF \E i \in DOMAIN commit_types : commit_types[i] = "feat"
            THEN Return(VersionStr(BumpMinor(version[1])))
            ELSE IF \E i \in DOMAIN commit_types : commit_types[i] = "fix"
            THEN Return(VersionStr(BumpMinor(version[1])))
            ELSE Return(start_version)
    IN  From(SemverParse(start_version))

\* bump_version_from_hist(start_version, commit_types), commit_types being the
\* type strings, newest first
bump_version_from_hist(start_version, commit_types) ==
    LET From(version) ==
            IF version = None
            THEN Raise("ValueError", start_version \o " is not valid SemVer string")
            ELSE IF \E i \in DOMAIN commit_types : Contains(commit_types[i], "!")
            THEN IF version[1].major = 0
                 THEN Return(VersionStr(BumpMinor(version[1])))
                 ELSE Return(VersionStr(BumpMajor(version[1])))
            ELSE IF \E i \in DOMAIN commit_types : commit_types[i] = "feat"
            THEN Return(VersionStr(BumpMinor(version[1])))
            ELSE IF \E i \in DOMAIN commit_types : commit_types[i] = "fix"
            THEN Return(VersionStr(BumpPatch(version[1])))
            ELSE Return(start_version)
    IN  From(SemverParse(start_version))

(***************************************************************************)
(* The state machine.                                                      *)
(***************************************************************************)
NoCall ==
    [op |-> "none", exc |-> "", arg |-> "", val |-> "", latest |-> "", commits |-> <<>>,
     types |-> <<>>, groups |-> {}, argv |-> <<>>]

\* the result r of evaluating property op: the exception raised or the string
\* returned (head, latest, next), with the values of self.latest and self.commits
\* the evaluation read (commits returns the latter)
Called(op, r, latest, commits) ==
    [op      |-> op,
     exc     |-> r.exc,
     arg     |-> r.arg,
     val     |-> IF op = "commits" THEN "" ELSE r.val,
     latest  |-> IF latest.exc = "" THEN latest.val ELSE "",
     commits |-> IF commits.exc = "" THEN commits.val ELSE <<>>,
     types   |-> <<>>,
     groups  |-> {},
     argv    |-> <<>>]

\* the result r of group_commits(types)
CalledGroup(types, r, latest, commits) ==
    [Called("group_commits", Raise(r.exc, r.arg), latest, commits)
        EXCEPT !.types = types, !.groups = IF r.exc = "" THEN r.val ELSE {}]

\* no value read
Unread == [exc |-> "unread", arg |-> "", val |-> ""]

Init ==
    /\ tag = NoTag
    /\ older = 0
    /\ since = <<>>
    /\ tree = "clean"
    /\ site \in Sites
    /\ ret = NoCall
    /\ prev = NoCall
    /\ cwd = "work_dir"

\* git commit: a new commit with message Messages[m] becomes HEAD
GitCommit(m) ==
    /\ ret = NoCall
    /\ site = "repo"
    /\ tree # "broken"
    /\ NumCommits < MaxCommits
    /\ since' = <<m>> \o since
    /\ tree' = "clean"
    /\ UNCHANGED <<tag, older, site, ret, prev, cwd>>

\* git tag t: HEAD gets the version tag t
GitTag(t) ==
    /\ ret = NoCall
    /\ site = "repo"
    /\ NumCommits > 0
    /\ tag = NoTag \/ Len(since) > 0
    /\ \A i \in DOMAIN since : Messages[since[i]] = TaggedMessage
    /\ tag' = t
    /\ older' = NumCommits
    /\ since' = <<>>
    /\ UNCHANGED <<tree, site, ret, prev, cwd>>

\* the working tree is edited, staged or restored, the index is damaged or
\* repaired (the repository does not change while an evaluation's result is held)
EditTree(t) ==
    /\ ret = NoCall
    /\ site = "repo"
    /\ t # tree
    /\ tree' = t
    /\ UNCHANGED <<tag, older, since, site, ret, prev, cwd>>

\* os.chdir(d): the process moves to another directory; work_dir stays
ChangeDir(d) ==
    /\ ret = NoCall
    /\ site = "repo"
    /\ d # cwd
    /\ cwd' = d
    /\ UNCHANGED <<repo, ret, prev>>

\* GitReleaseStatus(...).head is evaluated
CallHead ==
    /\ ret = NoCall
    /\ ret' = Called("head", HeadProp, Unread, Unread)
    /\ UNCHANGED <<repo, prev, cwd>>

\* CallHeadAgain whose second evaluation sees the tree as git diff --quiet left
\* it, with the index refreshed
CallHeadAgain_Refreshed ==
    /\ ret.op = "head"
    /\ prev = NoCall
    /\ prev' = ret
    /\ ret' = Called("head", HeadOf(GitDescribe, GitRevParse, GitRevList, 0),
                     Unread, Unread)
    /\ UNCHANGED <<repo, cwd>>

\* head is evaluated once more, right after an evaluation of head
CallHeadAgain ==
    /\ ret.op = "head"
    /\ prev = NoCall
    /\ prev' = ret
    /\ ret' = Called("head", HeadProp, Unread, Unread)
    /\ UNCHANGED <<repo, cwd>>

\* GitReleaseStatus(...).latest is evaluated
CallLatest ==
    /\ ret = NoCall
    /\ ret' = Called("latest", LatestProp, Unread, Unread)
    /\ UNCHANGED <<repo, prev, cwd>>

\* CallCommits that restores the working tree before it reads the log
CallCommits_RestoresTree ==
    /\ ret = NoCall
    /\ \E latest \in {LatestProp} :
          \E commits \in {CommitsOf(latest, LogOf(latest))} :
             ret' = Called("commits", commits, latest, commits)
    /\ tree' = "clean"
    /\ UNCHANGED <<tag, older, since, site, prev, cwd>>

\* GitReleaseStatus(...).commits is evaluated
CallCommits ==
    /\ ret = NoCall
    /\ \E latest \in {LatestProp} :
          \E commits \in {CommitsOf(latest, LogOf(latest))} :
             ret' = Called("commits", commits, latest, commits)
    /\ UNCHANGED <<repo, prev, cwd>>

\* GitReleaseStatus(...).next is evaluated
CallNext ==
    /\ ret = NoCall
    /\ \E latest \in {LatestProp} :
          \E commits \in {CommitsOf(latest, LogOf(latest))} :
             ret' = Called("next", NextOf(latest, commits), latest, commits)
    /\ UNCHANGED <<repo, prev, cwd>>

\* after next has returned, bump_version_from_hist is called with the latest
\* version and the classification of the commits that next read
CallBump ==
    /\ ret.op = "next"
    /\ ret.exc = ""
    /\ prev = NoCall
    /\ prev' = ret
    /\ ret' = Called("bump_version_from_hist",
                     bump_version_from_hist(ret.latest, HistTypes(ret.commits)),
                     Return(ret.latest), Return(ret.commits))
    /\ UNCHANGED <<repo, cwd>>

\* GitReleaseStatus(...).group_commits(types) is called
CallGroup(types) ==
    /\ ret = NoCall
    /\ \E latest \in {LatestProp} :
          \E commits \in {CommitsOf(latest, LogOf(latest))} :
             ret' = CalledGroup(types, GroupOf(types, commits), latest, commits)
    /\ UNCHANGED <<repo, prev, cwd>>

\* kyanit-versioning is run in the repository with the arguments argv
CallCommandLine(argv) ==
    /\ ret = NoCall
    /\ cwd = "work_dir"
    /\ \E head \in {HeadProp} :
          \E latest \in {LatestOf(head)} :
             \E commits \in {CommitsOf(latest, LogOf(latest))} :
                ret' = [Called("command_line",
                               CommandLineOf(ParseArgs(argv), head, latest, commits,
                                             NextOf(latest, commits)),
                               latest, commits)
                           EXCEPT !.argv = argv]
    /\ UNCHANGED <<repo, prev, cwd>>

\* the caller takes the result; the next evaluation starts afresh
TakeResult ==
    /\ ret # NoCall
    /\ ret' = NoCall
    /\ prev' = NoCall
    /\ UNCHANGED <<repo, cwd>>

Next ==
    \/ \E m \in DOMAIN Messages : GitCommit(m)
    \/ \E t \in TagNames : GitTag(t)
    \/ \E t \in TreeStates : EditTree(t)
    \/ \E d \in Dirs : ChangeDir(d)
    \/ CallHead
    \/ CallHeadAgain
    \/ CallLatest
    \/ CallCommits
    \/ CallNext
    \/ CallBump
    \/ \E types \in GroupTypes : CallGroup(types)
    \/ \E argv \in ArgVectors : CallCommandLine(argv)
    \/ TakeResult

Spec == Init /\ [][Next]_vars

(***************************************************************************)
(* Properties.                                                             *)
(***************************************************************************)
\* the version next starts from and the commit records it reads, when next returned
NextLatest == SemverParse(ret.latest)[1]

NextCommits == ret.commits

NextReturned == ret.op = "next" /\ ret.exc = ""

AnyBreaking(commits) == \E i \in DOMAIN commits : commits[i].breaking

AnyOfType(commits, type) == \E i \in DOMAIN commits : commits[i].type = type

Version(major, minor, patch) ==
    IntToStr(major) \o "." \o IntToStr(minor) \o "." \o IntToStr(patch)

\* C1: with no breaking commit and no feat commit but at least one fix commit,
\* next is latest with patch incremented by one, major and minor unchanged.
C1_FixBumpsPatch ==
    (/\ NextReturned
     /\ ~AnyBreaking(NextCommits)
     /\ ~AnyOfType(NextCommits, "feat")
     /\ AnyOfType(NextCommits, "fix"))
    => ret.val = Version(NextLatest.major, NextLatest.minor, NextLatest.patch + 1)

\* C2: with at least one breaking commit, next is (major, minor+1, 0) when
\* latest.major is 0 and (major+1, 0, 0) otherwise, whatever the other commits
\* are, and it carries no build metadata.
C2_BreakingBump ==
    (NextReturned /\ AnyBreaking(NextCommits))
    => /\ ret.val = IF NextLatest.major = 0
                    THEN Version(0, NextLatest.minor + 1, 0)
                    ELSE Version(NextLatest.major + 1, 0, 0)
       /\ ~Contains(ret.val, "+")

C2_Witness ==
    /\ NextReturned
    /\ AnyBreaking(NextCommits)
    /\ NextLatest.major > 0
    /\ ret.val = Version(NextLatest.major + 1, 0, 0)

\* C3: with no breaking commit and at least one feat commit, next is
\* (major, minor+1, 0), also when fix commits are present.
C3_FeatBumpsMinor ==
    (NextReturned /\ ~AnyBreaking(NextCommits) /\ AnyOfType(NextCommits, "feat"))
    => ret.val = Version(NextLatest.major, NextLatest.minor + 1, 0)

C3_Witness ==
    /\ NextReturned
    /\ ~AnyBreaking(NextCommits)
    /\ AnyOfType(NextCommits, "feat")
    /\ AnyOfType(NextCommits, "fix")

\* C4: with an empty commit set, or one with no breaking commit and no feat or
\* fix commit, next equals latest unchanged.
C4_NothingToRelease ==
    (/\ NextReturned
     /\ ~AnyBreaking(NextCommits)
     /\ ~AnyOfType(NextCommits, "feat")
     /\ ~AnyOfType(NextCommits, "fix"))
    => ret.val = ret.latest

C4_Witness ==
    /\ NextReturned
    /\ NextCommits # <<>>
    /\ \A i \in DOMAIN NextCommits :
          NextCommits[i].type = "docs" /\ ~NextCommits[i].breaking
    /\ tag # NoTag

\* C5: next is order independent: every reordering of the commit records gives
\* the version next returned.
C5_OrderIndependent ==
    NextReturned
    => \A p \in Permutations(DOMAIN NextCommits) :
          NextVersion(NextLatest, [i \in DOMAIN NextCommits |-> NextCommits[p[i]]])
          = ret.val

C5_Witness ==
    /\ NextReturned
    /\ Len(NextCommits) >= 2
    /\ NextCommits[1].type = "fix" /\ ~NextCommits[1].breaking
    /\ NextCommits[2].breaking

\* the commits the log query of commits lists, when latest is found
ReadCommits ==
    IF ret.latest = "" \/ ~RangeResolves(LogRange(ret.latest)) THEN <<>>
    ELSE LoggedCommits(LogRange(ret.latest))

\* the first line of the message does not match the subject grammar
NotConventional(lines) == SubjectMatch(lines[1]) = None

\* C6: when the subject of a commit in the log does not match the Conventional
\* Commits grammar, commits fails with GitCommitNotConventional carrying that
\* commit's hash; no other error kind is raised and the commit is not skipped.
C6_NotConventionalRaised ==
    (/\ ret.op = "commits"
     /\ \E i \in DOMAIN ReadCommits : NotConventional(ReadCommits[i][2]))
    => /\ ret.exc = "GitCommitNotConventional"
       /\ \E i \in DOMAIN ReadCommits :
             /\ NotConventional(ReadCommits[i][2])
             /\ ret.arg = ReadCommits[i][1]

\* the message carries a breaking marker: "!" before the colon of the subject, or
\* a line after the subject that begins with BREAKING CHANGE or BREAKING-CHANGE
MarkedBreaking(lines) ==
    \/ SubjectMatch(lines[1])[1].bang # None
    \/ \E k \in 2..Len(lines) :
          \/ StartsWithAt(lines[k], 1, "BREAKING CHANGE")
          \/ StartsWithAt(lines[k], 1, "BREAKING-CHANGE")

\* C7: the record of a commit has breaking = true whenever its subject carries
\* "!" before the colon or a line after the subject begins with BREAKING CHANGE
\* or BREAKING-CHANGE, also when that line is the first line of the body.
C7_BreakingMarked ==
    (ret.op = "commits" /\ ret.exc = "")
    => \A i \in DOMAIN ReadCommits :
          \A j \in DOMAIN ret.commits :
             (ret.commits[j].hash = ReadCommits[i][1]
              /\ MarkedBreaking(ReadCommits[i][2]))
             => ret.commits[j].breaking

\* C8: with a tag vX.Y.Z describing HEAD and a clean or dirty tree, head is X.Y.Z (no commits since, clean),
\* X.Y.Z+0.dirty (no commits since, dirty), X.Y.Z+N.<hash>.clean or
\* X.Y.Z+N.<hash>.dirty (N > 0 commits since the tag).
C8_TaggedHead ==
    (ret.op = "head" /\ tag \in VersionTagNames /\ tree # "broken")
    => /\ ret.exc = ""
       /\ ret.val =
            IF Len(since) = 0
            THEN IF tree = "clean" THEN Tail(tag) ELSE Tail(tag) \o "+0.dirty"
            ELSE Tail(tag) \o "+" \o IntToStr(Len(since)) \o "." \o ShortHash(HeadHash)
                 \o (IF tree = "clean" THEN ".clean" ELSE ".dirty")

C8_Witness ==
    /\ ret.op = "head"
    /\ tag \in VersionTagNames
    /\ Len(since) > 0
    /\ tree # "clean"
    /\ ret.exc = ""

DescribeGroups == DescribeMatch(GitDescribe.stdout)

\* C10: a commit count without a hash, or a hash without a commit count (dirty
\* or clean), parsed from a tagged describe string raises GitUnexpectedError;
\* head returns no version string.
C10_OffTableRaises ==
    (/\ ret.op = "head"
     /\ tag # NoTag
     /\ DescribeGroups # None
     /\ (DescribeGroups[1].rev_count = None) # (DescribeGroups[1].rev_hash = None))
    => ret.exc = "GitUnexpectedError"

\* C11: whenever the output of describe contains the marker -broken, head raises
\* GitRepositoryBroken, before any other classification of the describe result
\* (the text on stderr included).
C11_BrokenFirst ==
    (ret.op = "head" /\ Contains(GitDescribe.stdout, "-broken"))
    => ret.exc = "GitRepositoryBroken"

\* C12: when the tag found is not a well-formed vMAJOR.MINOR.PATCH (v1.2,
\* v1.2.3.4, ...), head fails with GitTagVersionNotSemVer and returns no
\* version string.
C12_MalformedTagRaises ==
    (ret.op = "head" /\ tag \in OddTagNames /\ tree # "broken")
    => ret.exc = "GitTagVersionNotSemVer"

\* C13: head raises GitNotFound when there is no git executable,
\* GitRepositoryNotFound when the working directory is outside any repository,
\* and GitRepositoryEmpty when describe finds no tag and the fallback
\* rev-parse --short HEAD fails; three distinct error kinds.
C13_DistinctErrors ==
    ret.op = "head"
    => /\ site = "nogit" => ret.exc = "GitNotFound"
       /\ site = "norepo" => ret.exc = "GitRepositoryNotFound"
       /\ (site = "repo" /\ tag = NoTag /\ GitRevParse.stderr # "")
             => ret.exc = "GitRepositoryEmpty"

C13_Witness ==
    /\ ret.op = "head"
    /\ site = "repo"
    /\ tag = NoTag
    /\ GitRevParse.stderr # ""
    /\ ret.exc = "GitRepositoryEmpty"

\* C14: every operation (head, latest, commits, next, group_commits), on
\* success or on error, leaves the repository as it was: tags, commits, index
\* and working tree.
C14_RepositoryUnchanged == [][ret'.op # "none" => repo' = repo]_vars

C14_Witness ==
    /\ ret.op = "group_commits"
    /\ ret.exc # ""
    /\ NumCommits > 0
    /\ tree = "unstaged"

C16_OneKeyPerType ==
    (ret.op = "group_commits" /\ ret.exc = "")
    => /\ {g.type : g \in ret.groups} = TypeSet(ret.types)
       /\ Cardinality(ret.groups) = Cardinality(TypeSet(ret.types))
       /\ \A g \in ret.groups :
             /\ ~AnyOfType(ret.commits, g.type) => g.commits = <<>>
             /\ \A j \in DOMAIN g.commits : g.commits[j].type \in TypeSet(ret.types)

C16_Witness ==
    /\ ret.op = "group_commits"
    /\ ret.exc = ""
    /\ ret.types = <<"docs", "fix", "docs">>
    /\ AnyOfType(ret.commits, "feat")
    /\ AnyOfType(ret.commits, "fix")
    /\ \E g \in ret.groups : g.type = "docs" /\ g.commits = <<>>

\* the places (group, index) of the result of group_commits
GroupPlaces == UNION {{<<g, j>> : j \in DOMAIN g.commits} : g \in ret.groups}

\* C17: every commit whose type is requested appears exactly once, in the group
\* keyed by its own type and with its own hash; within a group the commits keep
\* their newest-first order.
C17_GroupsKeepCommits ==
    (ret.op = "group_commits" /\ ret.exc = "")
    => /\ \A g \in ret.groups :
             g.commits = SelectSeq(ret.commits, LAMBDA c : c.type = g.type)
       /\ \A i \in DOMAIN ret.commits :
             ret.commits[i].type \in TypeSet(ret.types)
             => Cardinality({p \in GroupPlaces :
                                p[1].commits[p[2]].hash = ret.commits[i].hash}) = 1

C17_Witness ==
    /\ ret.op = "group_commits"
    /\ ret.exc = ""
    /\ \E g \in ret.groups :
          /\ Len(g.commits) = 2
          /\ g.commits[1].hash = ret.commits[1].hash
          /\ g.commits[1] # g.commits[2]

\* the first line of the message has nothing but whitespace after its first colon
NothingAfterColon(lines) ==
    /\ Find(lines[1], ":", 1) > 0
    /\ Strip(SubSeq(lines[1], Find(lines[1], ":", 1) + 1, Len(lines[1]))) = ""

\* the first line of the message matches the subject grammar and has a summary
ConventionalSubject(lines) == ~NotConventional(lines) /\ ~NothingAfterColon(lines)

\* every character of the message takes one byte, so that the size the log gives is
\* the number of characters of the message
SizedInCharacters(lines) == \A k \in DOMAIN lines : ByteLen(lines[k]) = Len(lines[k])

\* C18: for a log of well-framed blocks (commit <hash>, log size <N>, N characters
\* of message, a blank line) with distinct hashes and conventional subjects,
\* commits returns exactly one record per block, keyed by the hash of the block, in
\* the order of the log (newest first); a message with blank lines or with lines
\* that look like "commit <hex>" or "log size <N>" neither splits nor merges commits.
C18_OneRecordPerBlock ==
    (/\ ret.op = "commits"
     /\ ret.latest # ""
     /\ \A i \in DOMAIN ReadCommits :
           /\ ConventionalSubject(ReadCommits[i][2])
           /\ SizedInCharacters(ReadCommits[i][2]))
    => /\ ret.exc = ""
       /\ Len(ret.commits) = Len(ReadCommits)
       /\ \A i \in DOMAIN ReadCommits : ret.commits[i].hash = ReadCommits[i][1]

C18_Witness ==
    /\ ret.op = "commits" /\ ret.exc = ""
    /\ Len(ReadCommits) = 2
    /\ ReadCommits[1][2] = <<"fix: g", "", "commit abc1ef", "", "log size 3">>
    /\ ReadCommits[2][1] = "abc1ef"
    /\ Len(ret.commits) = 2
    /\ ret.commits[1].hash = "abc2ef"
    /\ ret.commits[1].description = Some("commit abc1ef\nlog size 3")
    /\ ret.commits[2].hash = "abc1ef"

\* the characters of the type grammar [a-zA-Z0-9._-]
GrammarTypeChars == Letters \cup Digits \cup {".", "_", "-"}

\* C19: the type of every record commits returns is one or more characters of
\* [a-zA-Z0-9._-]; a subject whose type has another character, such as "|", is
\* rejected as not conventional.
C19_TypeGrammar ==
    ret.op = "commits"
    => \A i \in DOMAIN ret.commits :
          /\ ret.commits[i].type # ""
          /\ \A k \in 1..Len(ret.commits[i].type) :
                Ch(ret.commits[i].type, k) \in GrammarTypeChars

\* C20: the summary of every record commits returns is a non-empty string; a
\* subject with nothing, or only whitespace, after the colon gives no record.
C20_SummaryNonEmpty ==
    ret.op = "commits"
    => /\ \A i \in DOMAIN ret.commits : ret.commits[i].summary # ""
       /\ \A i \in DOMAIN ReadCommits :
             NothingAfterColon(ReadCommits[i][2])
             => \A j \in DOMAIN ret.commits : ret.commits[j].hash # ReadCommits[i][1]

C20_Witness ==
    /\ ret.op = "commits" /\ ret.exc # ""
    /\ Len(ReadCommits) = 2
    /\ ReadCommits[1][2] = <<"feat: a">>
    /\ ReadCommits[2][2] = <<"fix: ">>
    /\ ret.commits = <<>>

\* C21: commits returns the log since the latest release: whenever a version tag
\* describes HEAD, a tag v0.0.0 included, the records are those of the commits
\* after that tag, and no commit at or before the tag is among them.
C21_LogSinceLatest ==
    (/\ ret.op = "commits" /\ ret.exc = ""
     /\ tag \in VersionTagNames
     /\ cwd = "work_dir")
    => /\ Len(ret.commits) = Len(since)
       /\ \A i \in DOMAIN ret.commits : ret.commits[i].hash = SinceHash(i)

\* the part of a version string before its "+", all of it when it has none
BaseOf(s) == IF Find(s, "+", 1) = 0 THEN s ELSE SubSeq(s, 1, Find(s, "+", 1) - 1)

\* C22: in every repository state in which head returns a string, latest returns
\* the MAJOR.MINOR.PATCH base of that string (the part before any "+"), which is
\* "0.0.0" when no version tag exists; latest raises nothing on such a string.
C22_LatestIsHeadBase ==
    (ret.op = "latest" /\ HeadProp.exc = "")
    => /\ ret.exc = ""
       /\ ret.val = BaseOf(HeadProp.val)
       /\ (tag = NoTag => ret.val = "0.0.0")

C22_Witness ==
    /\ ret.op = "latest"
    /\ tag = "v2.1.0"
    /\ HeadProp.val = "2.1.0+1.abc2.dirty"
    /\ ret.val = "2.1.0"

\* C23: commits consumes exactly the N bytes of message that each "log size N"
\* line declares: for every log whose sizes are the byte lengths of the messages,
\* messages with multi-byte characters included, each commit's segment is its own
\* message and the next block is read from its "commit <hash>" line on, so that
\* every block gives its record.
C23_SizeInBytes ==
    (/\ ret.op = "commits"
     /\ ret.latest # ""
     /\ \A i \in DOMAIN ReadCommits : ConventionalSubject(ReadCommits[i][2]))
    => /\ ret.exc = ""
       /\ Len(ret.commits) = Len(ReadCommits)
       /\ \A i \in DOMAIN ReadCommits : ret.commits[i].hash = ReadCommits[i][1]

\* what follows the first colon of s
AfterColon(s) == SubSeq(s, Find(s, ":", 1) + 1, Len(s))

\* s with one space put after its first colon
SpaceAfterColon(s) ==
    SubSeq(s, 1, Find(s, ":", 1)) \o " " \o AfterColon(s)

\* the first line of the message is type(scope)?!?: then zero or more whitespace
\* characters and a summary
GrammarSubject(lines) ==
    /\ Find(lines[1], ":", 1) > 0
    /\ ~NothingAfterColon(lines)
    /\ SubjectMatch(SpaceAfterColon(lines[1])) # None

\* C24: commits accepts a subject exactly when it is type(scope)?!?: followed by
\* zero or more whitespace characters and a summary: "feat:add x" gives a record
\* with summary "add x", and after several spaces the summary has no leading
\* whitespace.
C24_WhitespaceAfterColon ==
    (/\ ret.op = "commits"
     /\ ret.latest # ""
     /\ \A i \in DOMAIN ReadCommits :
           /\ GrammarSubject(ReadCommits[i][2])
           /\ SizedInCharacters(ReadCommits[i][2]))
    => /\ ret.exc = ""
       /\ Len(ret.commits) = Len(ReadCommits)
       /\ \A i \in DOMAIN ReadCommits :
             ret.commits[i].summary = Strip(AfterColon(ReadCommits[i][2][1]))

\* C25: commits and next fail closed on a failed log query: when git log fails (it
\* prints nothing and exits with an error), the evaluation raises an error; the
\* failure is never reported as an empty set of commits that makes next return
\* latest unchanged.
C25_LogFailureRaises ==
    (/\ ret.op \in {"commits", "next"}
     /\ ret.latest # ""
     /\ ~RangeResolves(LogRange(ret.latest)))
    => ret.exc # ""

\* the history has a fix commit and neither a feat commit nor a breaking one
OnlyFixes(commits) ==
    /\ AnyOfType(commits, "fix")
    /\ ~AnyOfType(commits, "feat")
    /\ ~AnyBreaking(commits)

C27_QueriesTargetWorkDir ==
    (ret.op \in {"commits", "next", "group_commits"} /\ ret.latest # "")
    => /\ LoggedCommits(LogRange(ret.latest)) = WorkDirCommits(LogRange(ret.latest))
       /\ \A i \in DOMAIN ret.commits :
             \E k \in 1..NumCommits : ret.commits[i].hash = HashOf(k)

\* the categories the changelog is asked for: the TYPEs passed with -c, "feat" and
\* "fix" when none is passed
AskedTypes(argv) ==
    IF ParseArgs(argv).changelog[1] = <<>> THEN <<"feat", "fix">>
    ELSE ParseArgs(argv).changelog[1]

\* the text p occurs in the text s
Occurs(s, p) == \E i \in 1..(Len(s) - Len(p) + 1) : SubSeq(s, i, i + Len(p) - 1) = p

\* C28: kyanit-versioning with -c/--changelog and no TYPE prints the changelog
\* since the last release with the categories "feat" and "fix"; with at least one
\* TYPE it prints exactly the given categories; in both cases the changelog is
\* printed without --all.
C28_ChangelogOption ==
    (/\ ret.op = "command_line"
     /\ ret.exc = ""
     /\ ParseArgs(ret.argv).changelog # None)
    => /\ Occurs(ret.val, "kyanit-versioning: changelog: ")
       /\ \A t \in {"feat", "fix", "docs"} :
             Occurs(ret.val, " " \o t \o " commit(s)") <=> t \in TypeSet(AskedTypes(ret.argv))

=============================================================================
